---- MODULE Spec2Model ----
(***************************************************************************)
(* Model of the tool functions of learning_coach_agent/agent.py that the   *)
(* adaptive-difficulty loop is made of:                                    *)
(*   analyze_student_response        (agent.py 232-285)                    *)
(*   determine_next_learning_action  (agent.py 287-356)                    *)
(*   teach_concept                   (agent.py 359-739)                    *)
(*   provide_encouragement           (agent.py 741-777)                    *)
(* A Python dict is a function whose domain is its set of keys, a list is  *)
(* a sequence, a str that the code inspects is a sequence of one-character *)
(* strings, and the outcome of a call is a record that says whether the    *)
(* call returned or raised.                                                *)
(***************************************************************************)
EXTENDS Integers, Sequences, FiniteSets, TLC

VARIABLES
    analysis_results,   \* argument of determine_next_learning_action
    session_context,    \* argument of determine_next_learning_action
    result,             \* outcome of the call of determine_next_learning_action
    replay,             \* outcome of a second call with the same arguments
    now,                \* the wall clock (datetime.datetime.now(), agent.py 41)
    user_answer,        \* argument of analyze_student_response
    correct_answer,     \* argument of analyze_student_response
    question_type,      \* argument of analyze_student_response
    analysis,           \* outcome of the call of analyze_student_response
    pc,                 \* position of the caller
    sessions,           \* the learner sessions the agent serves, by identifier
    understanding_level, \* argument of provide_encouragement
    attempt_number,     \* argument of provide_encouragement
    encouragement,      \* outcome of the call of provide_encouragement
    concept,            \* argument of teach_concept
    age_group,          \* argument of teach_concept
    current_understanding, \* argument of teach_concept
    interests,          \* argument of teach_concept
    teaching_strategy,  \* argument of teach_concept
    teaching_plan       \* outcome of the call of teach_concept

\* the arguments and the outcome of provide_encouragement
encouragement_vars == <<understanding_level, attempt_number, encouragement>>

\* the arguments and the outcome of teach_concept
teaching_vars == <<concept, age_group, current_understanding, interests,
                   teaching_strategy, teaching_plan>>

vars == <<analysis_results, session_context, result, replay, now,
          user_answer, correct_answer, question_type, analysis, pc,
          sessions, encouragement_vars, teaching_vars>>

-----------------------------------------------------------------------------
(* Bounds of the model.                                                    *)

MaxHistory == 5
MaxAnswerLen == 3
MaxKeyLen == 2
MaxTurns == 2
MaxAttempt == 5
MaxWords == 2

\* the identifiers of the learner sessions, in a fixed order
SessionIds == <<"s1", "s2">>

-----------------------------------------------------------------------------
(* Python values.                                                          *)

\* the dict with no keys: {}
EmptyDict == [k \in {} |-> TRUE]

\* dict.get(key, default)
Get(d, key, default) == IF key \in DOMAIN d THEN d[key] ELSE default

\* dict.update(other): the keys of other are added or overwritten
Update(d, other) ==
    [k \in (DOMAIN d) \cup (DOMAIN other) |->
        IF k \in DOMAIN other THEN other[k] ELSE d[k]]

\* a call that ran to its return statement
Return(v) == [raised |-> "none", value |-> v]

\* the value of result, replay and analysis before the call is made
Pending == [raised |-> "pending", value |-> EmptyDict]

\* teach_concept has not been called; its arguments have their defaults
\* (agent.py 361-364)
NoTeaching ==
    /\ concept = <<>>
    /\ age_group = "general"
    /\ current_understanding = "beginner"
    /\ interests = "general"
    /\ teaching_strategy = "adaptive"
    /\ teaching_plan = Pending

\* provide_encouragement has not been called and has no arguments yet
NoEncouragement ==
    /\ understanding_level = ""
    /\ attempt_number = 1
    /\ encouragement = Pending

-----------------------------------------------------------------------------
(* determine_next_learning_action, agent.py 287-356                        *)

\* a call that ended in an exception.  The code has no raise statement; the
\* one expression of the modelled functions that can raise is the list
\* subscript of agent.py 774.
Raise(e) == [raised |-> e, value |-> EmptyDict]

\* the dict of agent.py 300-304 given the agent_instructions the other
\* three results have
start_action_with_instructions ==
    [action |-> "start",
     reason |-> "Beginning new learning session",
     next_steps |-> <<"Analyze learning style", "Provide initial explanation">>,
     agent_instructions |->
        [complexity_adjustment |-> "maintain",
         teaching_approach |-> "adaptive",
         analogy_level |-> "varied"]]

\* agent.py 300-304
start_action ==
    [action |-> "start",
     reason |-> "Beginning new learning session",
     next_steps |-> <<"Analyze learning style", "Provide initial explanation">>]

\* agent.py 312-325
advance_action ==
    [action |-> "advance",
     reason |-> "Student shows strong understanding",
     next_steps |-> <<"Introduce more advanced concepts",
                      "Explore practical applications",
                      "Challenge with harder questions">>,
     agent_instructions |->
        [complexity_adjustment |-> "increase",
         teaching_approach |-> "advanced_concepts",
         analogy_level |-> "sophisticated"]]

\* agent.py 327-340
reinforce_action ==
    [action |-> "reinforce",
     reason |-> "Student has partial understanding, needs reinforcement",
     next_steps |-> <<"Review key concepts with different examples",
                      "Try alternative analogies",
                      "Practice with similar difficulty questions">>,
     agent_instructions |->
        [complexity_adjustment |-> "maintain",
         teaching_approach |-> "alternative_explanations",
         analogy_level |-> "varied"]]

\* agent.py 342-356
simplify_action ==
    [action |-> "simplify",
     reason |-> "Student is struggling, need to simplify approach",
     next_steps |-> <<"Break concepts into smaller parts",
                      "Use much simpler analogies",
                      "Start with more basic questions",
                      "Provide more encouragement and support">>,
     agent_instructions |->
        [complexity_adjustment |-> "decrease",
         teaching_approach |-> "simplified_explanations",
         analogy_level |-> "very_simple"]]

\* correct_answers with result.get("is_correct", True) at agent.py 306
correct_answers_default_true(h) ==
    Cardinality({i \in DOMAIN h : Get(h[i], "is_correct", TRUE) = TRUE})

\* correct_answers counting the records that have the key is_correct,
\* whatever its value
correct_answers_key_present(h) ==
    Cardinality({i \in DOMAIN h : "is_correct" \in DOMAIN h[i]})

\* agent.py 306: sum(1 for result in analysis_results
\*                   if result.get("is_correct", False))
correct_answers(h) ==
    Cardinality({i \in DOMAIN h : Get(h[i], "is_correct", FALSE) = TRUE})

\* total_questions counting only the records that are not correct, which
\* turns the rate into the ratio of correct to incorrect answers
total_questions_incorrect_only(h) ==
    Cardinality({i \in DOMAIN h : Get(h[i], "is_correct", FALSE) # TRUE})

\* agent.py 307: len(analysis_results)
total_questions(h) == Len(h)

\* success_rate over the last three records only
success_rate_trailing(h) ==
    LET recent == IF Len(h) > 3 THEN SubSeq(h, Len(h) - 2, Len(h)) ELSE h
    IN  IF total_questions(recent) > 0
            THEN <<correct_answers(recent), total_questions(recent)>>
            ELSE <<0, 1>>

\* success_rate taken over the records that are not correct
success_rate_of_failures(h) ==
    IF total_questions(h) > 0
        THEN <<total_questions(h) - correct_answers(h), total_questions(h)>>
        ELSE <<0, 1>>

\* agent.py 308: correct_answers / total_questions if total_questions > 0 else 0
\* The quotient is kept as the exact fraction <<numerator, denominator>>.
success_rate(h) ==
    IF total_questions(h) > 0
        THEN <<correct_answers(h), total_questions(h)>>
        ELSE <<0, 1>>

\* agent.py 311, 326: success_rate >= 0.8, success_rate >= 0.5, the literal
\* given in tenths.  Python's / is the correctly rounded quotient and the
\* literal is the correctly rounded decimal, and rounding is monotone, so
\* the float comparison agrees with the comparison of the exact fractions
\* whenever the history is shorter than 2^50 records.
AtLeast(rate, tenths) == rate[1] * 10 >= tenths * rate[2]

\* agent.py 311
AdvanceTenths == 8

\* agent.py 326
ReinforceTenths == 5

\* the strict comparison success_rate > literal, which the code does not use
Above(rate, tenths) == rate[1] * 10 > tenths * rate[2]

\* determine_next_learning_action without the guard of agent.py 299
determine_next_learning_action_unguarded(h, s) ==
    IF AtLeast(success_rate(h), AdvanceTenths)
        THEN Return(advance_action)
    ELSE IF AtLeast(success_rate(h), ReinforceTenths)
        THEN Return(reinforce_action)
    ELSE Return(simplify_action)

\* determine_next_learning_action with > for >= at agent.py 311
determine_next_learning_action_open_advance(h, s) ==
    IF h = <<>>
        THEN Return(start_action)
    ELSE IF Above(success_rate(h), AdvanceTenths)
        THEN Return(advance_action)
    ELSE IF AtLeast(success_rate(h), ReinforceTenths)
        THEN Return(reinforce_action)
    ELSE Return(simplify_action)

\* determine_next_learning_action with 0.4 for 0.5 at agent.py 326
determine_next_learning_action_low_band(h, s) ==
    IF h = <<>>
        THEN Return(start_action)
    ELSE IF AtLeast(success_rate(h), AdvanceTenths)
        THEN Return(advance_action)
    ELSE IF AtLeast(success_rate(h), ReinforceTenths - 1)
        THEN Return(reinforce_action)
    ELSE Return(simplify_action)

\* determine_next_learning_action with > for >= at agent.py 326
determine_next_learning_action_open_reinforce(h, s) ==
    IF h = <<>>
        THEN Return(start_action)
    ELSE IF AtLeast(success_rate(h), AdvanceTenths)
        THEN Return(advance_action)
    ELSE IF Above(success_rate(h), ReinforceTenths)
        THEN Return(reinforce_action)
    ELSE Return(simplify_action)

\* determine_next_learning_action checking, before it computes the rate,
\* that every record has is_correct and confidence set
determine_next_learning_action_validating(h, s) ==
    IF h = <<>>
        THEN Return(start_action)
    ELSE IF \E i \in DOMAIN h :
                ~({"is_correct", "confidence"} \subseteq DOMAIN h[i])
        THEN Raise("InvalidInput")
    ELSE IF AtLeast(success_rate(h), AdvanceTenths)
        THEN Return(advance_action)
    ELSE IF AtLeast(success_rate(h), ReinforceTenths)
        THEN Return(reinforce_action)
    ELSE Return(simplify_action)

\* determine_next_learning_action rating a module-level list to which the
\* results of every session are added, instead of its argument
determine_next_learning_action_shared(h, s) ==
    LET recorded == sessions[SessionIds[1]].history
                        \o sessions[SessionIds[2]].history
    IN  IF recorded = <<>>
            THEN Return(start_action)
        ELSE IF AtLeast(success_rate(recorded), AdvanceTenths)
            THEN Return(advance_action)
        ELSE IF AtLeast(success_rate(recorded), ReinforceTenths)
            THEN Return(reinforce_action)
        ELSE Return(simplify_action)

\* determine_next_learning_action stamping its result with the clock, the
\* way analyze_learning_style does at agent.py 41
determine_next_learning_action_stamped(h, s) ==
    LET stamp(a) == Update(a, [analysis_timestamp |-> now])
    IN  IF h = <<>>
            THEN Return(stamp(start_action))
        ELSE IF AtLeast(success_rate(h), AdvanceTenths)
            THEN Return(stamp(advance_action))
        ELSE IF AtLeast(success_rate(h), ReinforceTenths)
            THEN Return(stamp(reinforce_action))
        ELSE Return(stamp(simplify_action))

\* agent.py 299-356
determine_next_learning_action(h, s) ==
    IF h = <<>>
        THEN Return(start_action)
    ELSE IF AtLeast(success_rate(h), AdvanceTenths)
        THEN Return(advance_action)
    ELSE IF AtLeast(success_rate(h), ReinforceTenths)
        THEN Return(reinforce_action)
    ELSE Return(simplify_action)

\* the arguments after a call that applied the adjustment to the session
\* itself instead of leaving that to the caller
determine_next_learning_action_args_applied(h, s) ==
    [analysis_results |-> h,
     session_context |->
        Update(s, [last_action |->
                      determine_next_learning_action(h, s).value.action])]

\* agent.py 287-356: the arguments as the call leaves them.  The body has no
\* assignment to, and no mutating method call on, either argument.
determine_next_learning_action_args(h, s) ==
    [analysis_results |-> h, session_context |-> s]

-----------------------------------------------------------------------------
(* analyze_student_response, agent.py 232-285                              *)

\* the characters of the answers: letters in both cases and the blank
Alphabet == {"b", "B", "c", "d", " "}

\* the characters str.strip() removes
Whitespace == {" "}

\* str.upper() on one character
upper_char(c) ==
    CASE c = "b" -> "B"
      [] c = "c" -> "C"
      [] c = "d" -> "D"
      [] OTHER -> c

\* str.upper(), agent.py 253
upper(str) == [i \in 1..Len(str) |-> upper_char(str[i])]

RECURSIVE lstrip(_)
\* removal of the leading whitespace, the first half of str.strip()
lstrip(str) ==
    IF str # <<>> /\ Head(str) \in Whitespace THEN lstrip(Tail(str)) ELSE str

RECURSIVE rstrip(_)
\* removal of the trailing whitespace, the second half of str.strip()
rstrip(str) ==
    IF str # <<>> /\ str[Len(str)] \in Whitespace
        THEN rstrip(SubSeq(str, 1, Len(str) - 1))
        ELSE str

\* str.strip(), agent.py 253
strip(str) == rstrip(lstrip(str))

\* agent.py 244-250
initial_analysis ==
    [is_correct |-> FALSE,
     understanding_level |-> "needs_improvement",
     specific_issues |-> <<>>,
     recommendations |-> <<>>,
     encouragement |-> ""]

\* agent.py 254-259
right_choice_update ==
    [is_correct |-> TRUE,
     understanding_level |-> "good",
     encouragement |-> "Excellent! You got it right!",
     recommendations |-> <<"Continue to the next concept",
                           "Try a slightly harder question">>]

\* agent.py 261-267
wrong_choice_update ==
    [is_correct |-> FALSE,
     understanding_level |-> "needs_review",
     specific_issues |-> <<"Incorrect answer selected">>,
     encouragement |->
        "Don't worry! This is a tricky concept. Let's try a different approach.",
     recommendations |-> <<"Try a different analogy",
                           "Simplify the explanation",
                           "Use more visual examples">>]

\* agent.py 271-283
open_ended_update(ua, ca) ==
    [requires_llm_evaluation |-> TRUE,
     student_answer |-> ua,
     expected_answer |-> ca,
     evaluation_criteria |->
        <<"Does the answer demonstrate understanding of core concepts?",
          "Are key ideas expressed in the student's own words?",
          "Is the explanation logical and coherent?",
          "What specific concepts are missing or incorrect?">>,
     encouragement |-> "Let me evaluate your answer...",
     note |->
        "LLM should analyze this response semantically and provide detailed feedback"]

\* the comparison of agent.py 253 without the two upper() calls
answers_match_cased(ua, ca) == strip(ua) = strip(ca)

\* agent.py 253
answers_match(ua, ca) == upper(strip(ua)) = upper(strip(ca))

\* analyze_student_response grading an open-ended answer by the comparison
\* of agent.py 253 before handing it to the LLM
analyze_student_response_graded_open(ua, ca, qt) ==
    IF qt = "multiple_choice"
        THEN IF answers_match(ua, ca)
                THEN Return(Update(initial_analysis, right_choice_update))
                ELSE Return(Update(initial_analysis, wrong_choice_update))
    ELSE IF qt = "open_ended"
        THEN Return(Update(Update(initial_analysis, open_ended_update(ua, ca)),
                           [is_correct |-> answers_match(ua, ca)]))
    ELSE Return(initial_analysis)

\* analyze_student_response with else for the elif of agent.py 268
analyze_student_response_else_open(ua, ca, qt) ==
    IF qt = "multiple_choice"
        THEN IF answers_match(ua, ca)
                THEN Return(Update(initial_analysis, right_choice_update))
                ELSE Return(Update(initial_analysis, wrong_choice_update))
    ELSE Return(Update(initial_analysis, open_ended_update(ua, ca)))

\* agent.py 244-285
analyze_student_response(ua, ca, qt) ==
    IF qt = "multiple_choice"
        THEN IF answers_match(ua, ca)
                THEN Return(Update(initial_analysis, right_choice_update))
                ELSE Return(Update(initial_analysis, wrong_choice_update))
    ELSE IF qt = "open_ended"
        THEN Return(Update(initial_analysis, open_ended_update(ua, ca)))
    ELSE Return(initial_analysis)

-----------------------------------------------------------------------------
(* The inputs the caller may supply.                                       *)

\* the records of a history: dicts in which is_correct and confidence are
\* each either set or unset
HistoryRecords ==
    {[is_correct |-> c, confidence |-> "high"] : c \in BOOLEAN}
        \cup {[is_correct |-> c] : c \in BOOLEAN}
        \cup {[confidence |-> "high"], EmptyDict}

RECURSIVE SeqsUpTo(_, _)
SeqsUpTo(S, n) ==
    IF n = 0 THEN {<<>>}
    ELSE LET shorter == SeqsUpTo(S, n - 1)
         IN  shorter \cup {Append(q, x) : q \in shorter, x \in S}

Histories == SeqsUpTo(HistoryRecords, MaxHistory)

SessionContexts ==
    {EmptyDict, [difficulty |-> "beginner"], [difficulty |-> "advanced"]}

\* the strings over the alphabet of at most n characters
Strings(n) == SeqsUpTo(Alphabet, n)

\* the docstring's "multiple_choice, open_ended, etc." (agent.py 239)
QuestionTypes == {"multiple_choice", "open_ended", "true_false"}

-----------------------------------------------------------------------------
(* The caller of determine_next_learning_action: it draws the arguments,   *)
(* calls the function, and calls it again with the same arguments.         *)

InitDecide ==
    /\ analysis_results \in Histories
    /\ session_context \in SessionContexts
    /\ result = Pending
    /\ replay = Pending
    /\ now = 0
    /\ user_answer = <<>>
    /\ correct_answer = <<>>
    /\ question_type = "multiple_choice"
    /\ analysis = Pending
    /\ pc = "decide"
    /\ sessions = <<>>
    /\ NoEncouragement
    /\ NoTeaching

Decide ==
    /\ pc = "decide"
    /\ result' = determine_next_learning_action(analysis_results, session_context)
    /\ analysis_results' =
         determine_next_learning_action_args(analysis_results, session_context).analysis_results
    /\ session_context' =
         determine_next_learning_action_args(analysis_results, session_context).session_context
    /\ now' = now + 1
    /\ pc' = "decided"
    /\ UNCHANGED <<replay, user_answer, correct_answer, question_type, analysis>>
    /\ UNCHANGED <<sessions, encouragement_vars, teaching_vars>>

DecideAgain ==
    /\ pc = "decided"
    /\ replay' = determine_next_learning_action(analysis_results, session_context)
    /\ analysis_results' =
         determine_next_learning_action_args(analysis_results, session_context).analysis_results
    /\ session_context' =
         determine_next_learning_action_args(analysis_results, session_context).session_context
    /\ now' = now + 1
    /\ pc' = "replayed"
    /\ UNCHANGED <<result, user_answer, correct_answer, question_type, analysis>>
    /\ UNCHANGED <<sessions, encouragement_vars, teaching_vars>>

NextDecide == Decide \/ DecideAgain

Spec == InitDecide /\ [][NextDecide]_vars

-----------------------------------------------------------------------------
(* The caller of analyze_student_response: it draws the arguments and      *)
(* calls the function.                                                     *)

InitAnalyze ==
    /\ analysis_results = <<>>
    /\ session_context = EmptyDict
    /\ result = Pending
    /\ replay = Pending
    /\ now = 0
    /\ user_answer \in Strings(MaxAnswerLen)
    /\ correct_answer \in Strings(MaxKeyLen)
    /\ question_type \in QuestionTypes
    /\ analysis = Pending
    /\ pc = "analyze"
    /\ sessions = <<>>
    /\ NoEncouragement
    /\ NoTeaching

Analyze ==
    /\ pc = "analyze"
    /\ analysis' = analyze_student_response(user_answer, correct_answer, question_type)
    /\ now' = now + 1
    /\ pc' = "analyzed"
    /\ UNCHANGED <<analysis_results, session_context, result, replay,
                   user_answer, correct_answer, question_type>>
    /\ UNCHANGED <<sessions, encouragement_vars, teaching_vars>>

NextAnalyze == Analyze

SpecAnalyze == InitAnalyze /\ [][NextAnalyze]_vars

-----------------------------------------------------------------------------
(* The agent serving several learner sessions (the tools registered at     *)
(* agent.py 832-842 are called for whichever session has a turn pending).  *)
(* A session answers the questions of its script one after the other; each *)
(* answer is assessed, the assessment is appended to the session's own     *)
(* history, and the next action is decided from that history.  The calls   *)
(* of different sessions are interleaved in any order.                     *)

\* the answers a learner gives in one turn: a right and a wrong choice, an
\* open-ended answer and an answer to a question of another type, both
\* equal to the expected answer
Turns ==
    {[user_answer |-> <<"b">>, correct_answer |-> <<"B">>,
      question_type |-> "multiple_choice"],
     [user_answer |-> <<"c">>, correct_answer |-> <<"B">>,
      question_type |-> "multiple_choice"],
     [user_answer |-> <<"b", "c", "d">>, correct_answer |-> <<"b", "c", "d">>,
      question_type |-> "open_ended"],
     [user_answer |-> <<"B">>, correct_answer |-> <<"B">>,
      question_type |-> "true_false"]}

Scripts == SeqsUpTo(Turns, MaxTurns)

\* a session that has not taken a turn yet
NewSession(script, context) ==
    [script |-> script, context |-> context, history |-> <<>>, actions |-> <<>>]

InitSessions ==
    /\ analysis_results = <<>>
    /\ session_context = EmptyDict
    /\ result = Pending
    /\ replay = Pending
    /\ now = 0
    /\ user_answer = <<>>
    /\ correct_answer = <<>>
    /\ question_type = "multiple_choice"
    /\ analysis = Pending
    /\ pc = "sessions"
    /\ NoEncouragement
    /\ NoTeaching
    /\ sessions \in
          [{SessionIds[i] : i \in DOMAIN SessionIds} ->
              {NewSession(script, context) :
                  script \in Scripts,
                  context \in {EmptyDict, [difficulty |-> "beginner"]}}]

\* the session assesses the answer of its next turn and records the result
SessionAnalyze(sid) ==
    LET session == sessions[sid]
        turn == session.script[Len(session.history) + 1]
    IN  /\ pc = "sessions"
        /\ Len(session.actions) = Len(session.history)
        /\ Len(session.history) < Len(session.script)
        /\ sessions' =
              [sessions EXCEPT ![sid].history =
                  Append(@, analyze_student_response(
                                turn.user_answer, turn.correct_answer,
                                turn.question_type).value)]
        /\ now' = now + 1
        /\ UNCHANGED <<analysis_results, session_context, result, replay,
                       user_answer, correct_answer, question_type, analysis, pc>>
        /\ UNCHANGED <<encouragement_vars, teaching_vars>>

\* the session decides its next action from its own history
SessionDecide(sid) ==
    LET session == sessions[sid]
    IN  /\ pc = "sessions"
        /\ Len(session.actions) < Len(session.history)
        /\ sessions' =
              [sessions EXCEPT ![sid].actions =
                  Append(@, determine_next_learning_action(
                                session.history, session.context)),
                               ![sid].history =
                  determine_next_learning_action_args(
                      session.history, session.context).analysis_results,
                               ![sid].context =
                  determine_next_learning_action_args(
                      session.history, session.context).session_context]
        /\ now' = now + 1
        /\ UNCHANGED <<analysis_results, session_context, result, replay,
                       user_answer, correct_answer, question_type, analysis, pc>>
        /\ UNCHANGED <<encouragement_vars, teaching_vars>>

NextSessions ==
    \E sid \in DOMAIN sessions : SessionAnalyze(sid) \/ SessionDecide(sid)

SpecSessions == InitSessions /\ [][NextSessions]_vars

-----------------------------------------------------------------------------
(* provide_encouragement, agent.py 741-777                                 *)

\* agent.py 752-768
encouragement_messages ==
    [good |->
        <<"Fantastic work! You really understand this concept!",
          "Excellent! You've got a solid grasp on this topic!",
          "Outstanding! Your understanding is really strong!">>,
     partial |->
        <<"You're doing great! You're definitely getting the hang of this!",
          "Good progress! You're understanding more and more!",
          "Nice work! You're on the right track!">>,
     needs_improvement |->
        <<"Don't worry - this is a really challenging concept, and you're learning!",
          "It's okay! Even famous scientists found this confusing at first!",
          "Keep going! Understanding complex ideas takes time, and you're making progress!">>]

\* min(a, b)
min(a, b) == IF a <= b THEN a ELSE b

\* list[index] with index counted from 0: a negative index counts from the
\* end, and an index outside -len .. len - 1 raises IndexError
subscript_in_range(list, index) == 0 - Len(list) <= index /\ index < Len(list)

subscript(list, index) ==
    IF index >= 0 THEN list[index + 1] ELSE list[Len(list) + index + 1]

\* agent.py 771 with attempt_number for attempt_number - 1
message_index_from_one(messages, attempt) == min(attempt, Len(messages) - 1)

\* agent.py 771: min(attempt_number - 1, len(messages) - 1)
message_index(messages, attempt) == min(attempt - 1, Len(messages) - 1)

\* agent.py 770-777
provide_encouragement(level, attempt) ==
    LET messages == Get(encouragement_messages, level,
                        encouragement_messages["partial"])
    IN  IF subscript_in_range(messages, message_index(messages, attempt))
            THEN Return(
                [encouragement |->
                    subscript(messages, message_index(messages, attempt)),
                 motivation |->
                    "Remember, every expert was once a beginner. You're doing great by asking questions and trying to understand!",
                 next_step_support |->
                    "Let's try a different approach that might work better for you."])
            ELSE Raise("IndexError")

\* the understanding levels a caller may pass: the three keys of the table,
\* the level analyze_student_response gives a wrong choice, and others
UnderstandingLevels ==
    {"good", "partial", "needs_improvement", "needs_review", "mastered", ""}

\* the attempt numbers a caller may pass; an int may be zero or negative
AttemptNumbers == (0 - MaxAttempt)..MaxAttempt

InitEncourage ==
    /\ analysis_results = <<>>
    /\ session_context = EmptyDict
    /\ result = Pending
    /\ replay = Pending
    /\ now = 0
    /\ user_answer = <<>>
    /\ correct_answer = <<>>
    /\ question_type = "multiple_choice"
    /\ analysis = Pending
    /\ pc = "encourage"
    /\ sessions = <<>>
    /\ understanding_level \in UnderstandingLevels
    /\ attempt_number \in AttemptNumbers
    /\ encouragement = Pending
    /\ NoTeaching

Encourage ==
    /\ pc = "encourage"
    /\ encouragement' = provide_encouragement(understanding_level, attempt_number)
    /\ now' = now + 1
    /\ pc' = "encouraged"
    /\ UNCHANGED <<analysis_results, session_context, result, replay,
                   user_answer, correct_answer, question_type, analysis,
                   sessions, understanding_level, attempt_number>>
    /\ UNCHANGED teaching_vars

NextEncourage == Encourage

SpecEncourage == InitEncourage /\ [][NextEncourage]_vars

-----------------------------------------------------------------------------
(* teach_concept, agent.py 359-739                                         *)

\* the capital letters and their small counterparts, for str.lower()
CapitalLetters ==
    <<"A", "B", "C", "D", "E", "F", "G", "H", "I", "J", "K", "L", "M",
      "N", "O", "P", "Q", "R", "S", "T", "U", "V", "W", "X", "Y", "Z">>

SmallLetters ==
    <<"a", "b", "c", "d", "e", "f", "g", "h", "i", "j", "k", "l", "m",
      "n", "o", "p", "q", "r", "s", "t", "u", "v", "w", "x", "y", "z">>

\* str.lower() on one character
lower_letter(c) ==
    IF \E i \in DOMAIN CapitalLetters : CapitalLetters[i] = c
        THEN SmallLetters[CHOOSE i \in DOMAIN CapitalLetters : CapitalLetters[i] = c]
        ELSE c

\* str.lower(), agent.py 402
lower(str) == [i \in 1..Len(str) |-> lower_letter(str[i])]

\* word in text, for two strs: word occurs in text as a substring
contains(text, word) ==
    \E i \in 1..(Len(text) - Len(word) + 1) :
        SubSeq(text, i, i + Len(word) - 1) = word

\* any(word in text for word in words)
any_in(words, text) == \E word \in words : contains(text, word)

\* len(str.split()): the number of maximal runs of characters that are not
\* whitespace, agent.py 422
word_count(str) ==
    Cardinality({i \in 1..Len(str) :
        /\ str[i] \notin Whitespace
        /\ (i = 1 \/ str[i - 1] \in Whitespace)})

\* agent.py 405
procedural_words ==
    {<<"h", "o", "w", " ", "t", "o">>,
     <<"p", "r", "o", "c", "e", "s", "s">>,
     <<"m", "e", "t", "h", "o", "d">>,
     <<"p", "r", "o", "c", "e", "d", "u", "r", "e">>,
     <<"s", "t", "e", "p", "s">>}

\* agent.py 408
abstract_words ==
    {<<"w", "h", "a", "t", " ", "i", "s">>,
     <<"t", "h", "e", "o", "r", "y">>,
     <<"p", "r", "i", "n", "c", "i", "p", "l", "e">>,
     <<"c", "o", "n", "c", "e", "p", "t", " ", "o", "f">>,
     <<"i", "d", "e", "a">>}

\* agent.py 411
relational_words ==
    {<<"w", "h", "y">>,
     <<"r", "e", "l", "a", "t", "i", "o", "n", "s", "h", "i", "p">>,
     <<"c", "o", "n", "n", "e", "c", "t", "i", "o", "n">>,
     <<"a", "f", "f", "e", "c", "t", "s">>,
     <<"c", "a", "u", "s", "e", "s">>}

\* agent.py 414
system_words ==
    {<<"s", "y", "s", "t", "e", "m">>,
     <<"s", "t", "r", "u", "c", "t", "u", "r", "e">>,
     <<"o", "r", "g", "a", "n", "i", "z", "a", "t", "i", "o", "n">>,
     <<"a", "r", "c", "h", "i", "t", "e", "c", "t", "u", "r", "e">>}

\* agent.py 425
technical_words ==
    {<<"q", "u", "a", "n", "t", "u", "m">>,
     <<"n", "e", "u", "r", "a", "l">>,
     <<"a", "l", "g", "o", "r", "i", "t", "h", "m">>,
     <<"m", "o", "l", "e", "c", "u", "l", "a", "r">>,
     <<"d", "e", "r", "i", "v", "a", "t", "i", "v", "e">>}

\* agent.py 423: "and"
and_word == <<"a", "n", "d">>

\* agent.py 423: word_count > 10
WordLimit == 10

\* agent.py 383-389
student_context(age, understanding, interest) ==
    [age_group |-> age,
     prior_knowledge |-> "unknown",
     learning_style_preference |-> "mixed",
     interests |-> interest,
     current_understanding |-> understanding]

\* agent.py 405-419: the primary type
primary_type(concept_lower) ==
    IF any_in(procedural_words, concept_lower) THEN "procedural"
    ELSE IF any_in(abstract_words, concept_lower) THEN "abstract"
    ELSE IF any_in(relational_words, concept_lower) THEN "relational"
    ELSE IF any_in(system_words, concept_lower) THEN "system"
    ELSE "factual"

\* agent.py 407, 410, 413, 416, 419: the characteristic appended with the type
characteristics(type) ==
    CASE type = "procedural" -> <<"step-by-step learning needed">>
      [] type = "abstract" -> <<"needs concrete analogies">>
      [] type = "relational" -> <<"needs causal reasoning">>
      [] type = "system" -> <<"needs holistic and component views">>
      [] type = "factual" -> <<"needs context and application">>

\* agent.py 422-426
complexity_indicators(str) ==
    (IF word_count(str) > WordLimit \/ contains(lower(str), and_word)
        THEN <<"multi-part concept">> ELSE <<>>)
    \o
    (IF any_in(technical_words, lower(str))
        THEN <<"technical domain">> ELSE <<>>)

\* agent.py 394-426
concept_classification(str) ==
    [concept |-> str,
     primary_type |-> primary_type(lower(str)),
     characteristics |-> characteristics(primary_type(lower(str))),
     complexity_indicators |-> complexity_indicators(str)]

\* agent.py 431
is_complex(classification) == Len(classification.complexity_indicators) > 0

\* agent.py 442-468
complex_teaching_sequence(type) ==
    IF type = "procedural" THEN
        <<[phase |-> "foundation", focus |-> "Prerequisites and basic components"],
          [phase |-> "procedure", focus |-> "Step-by-step process"],
          [phase |-> "practice", focus |-> "Guided application"],
          [phase |-> "mastery", focus |-> "Independent execution"]>>
    ELSE IF type = "abstract" THEN
        <<[phase |-> "concrete", focus |-> "Start with tangible examples"],
          [phase |-> "pattern", focus |-> "Identify common patterns"],
          [phase |-> "abstraction", focus |-> "Generalize the concept"],
          [phase |-> "application", focus |-> "Apply to new contexts"]>>
    ELSE IF type = "system" THEN
        <<[phase |-> "overview", focus |-> "Big picture and purpose"],
          [phase |-> "components", focus |-> "Individual parts"],
          [phase |-> "interactions", focus |-> "How parts work together"],
          [phase |-> "integration", focus |-> "Complete system behavior"]>>
    ELSE
        <<[phase |-> "introduction", focus |-> "Core idea"],
          [phase |-> "development", focus |-> "Details and nuances"],
          [phase |-> "application", focus |-> "Practical use"]>>

\* agent.py 433-474
decomposition(classification) ==
    IF is_complex(classification)
        THEN [is_decomposed |-> TRUE,
              teaching_sequence |->
                  complex_teaching_sequence(classification.primary_type),
              guidance |->
                  "This is a complex concept. Break it into digestible chunks.",
              approach |->
                  "Build understanding progressively, mastering each component before moving to the next"]
        ELSE [is_decomposed |-> FALSE,
              teaching_sequence |->
                  <<[phase |-> "complete", focus |-> "Teach as unified concept"]>>,
              guidance |-> "Concept is manageable as a single unit"]

\* agent.py 480-506
strategy_definitions ==
    [adaptive |-> [description |-> "Flexible approach that adjusts based on student responses",
                   best_for |-> "Unknown student background or mixed ability",
                   activities |-> <<"explain",
                                    "check_understanding",
                                    "adapt",
                                    "reinforce">>],
     socratic |-> [description |-> "Guide student to discover concepts through questioning",
                   best_for |-> "Encouraging critical thinking and self-discovery",
                   activities |-> <<"pose_questions",
                                    "guide_reasoning",
                                    "confirm_insights",
                                    "extend">>],
     worked_examples |-> [description |-> "Demonstrate with examples, then have student practice",
                          best_for |-> "Procedural concepts and problem-solving",
                          activities |-> <<"demonstrate",
                                           "explain_reasoning",
                                           "guided_practice",
                                           "independent_practice">>],
     discovery |-> [description |-> "Let student explore and discover patterns",
                    best_for |-> "Abstract concepts and pattern recognition",
                    activities |-> <<"present_scenario",
                                     "encourage_exploration",
                                     "guide_discovery",
                                     "formalize">>],
     direct_instruction |-> [description |-> "Clear, structured explanation followed by practice",
                             best_for |-> "Factual information and clear-cut concepts",
                             activities |-> <<"explain_clearly",
                                              "provide_examples",
                                              "check_understanding",
                                              "practice">>]]

\* agent.py 508-517 without the adjustment of 511-517
selected_strategy_unadjusted(strategy, type) ==
    Get(strategy_definitions, strategy, strategy_definitions["adaptive"])

\* agent.py 508-517
selected_strategy(strategy, type) ==
    IF strategy = "adaptive" /\ type = "procedural"
        THEN strategy_definitions["worked_examples"]
    ELSE IF strategy = "adaptive" /\ type = "abstract"
        THEN strategy_definitions["discovery"]
    ELSE IF strategy = "adaptive" /\ type = "relational"
        THEN strategy_definitions["socratic"]
    ELSE Get(strategy_definitions, strategy, strategy_definitions["adaptive"])

\* agent.py 550
opening_phases == {"foundation", "concrete", "overview", "introduction"}

\* agent.py 563
exploring_phases == {"procedure", "pattern", "components", "development"}

\* agent.py 576
practising_phases == {"practice", "application", "mastery", "independent_practice"}

\* agent.py 551-561
opening_phase_update(phase) ==
    [activities |->
        <<"Activate prior knowledge",
          "Introduce " \o phase.focus \o " with clear explanation",
          "Use relevant analogies",
          "Show real-world application">>,
     tools_to_use |->
        <<"explain_topic", "create_analogies", "suggest_real_world_applications">>]

\* agent.py 564-574
exploring_phase_update(phase) ==
    [activities |->
        <<"Detailed exploration of " \o phase.focus,
          "Provide multiple examples",
          "Check understanding with questions",
          "Address misconceptions">>,
     tools_to_use |->
        <<"explain_topic", "generate_quiz_questions", "analyze_student_response">>]

\* agent.py 577-588
practising_phase_update ==
    [activities |->
        <<"Guided practice exercises",
          "Real-world application scenarios",
          "Independent problem-solving",
          "Provide encouraging feedback">>,
     tools_to_use |->
        <<"generate_quiz_questions", "analyze_student_response",
          "provide_encouragement", "determine_next_learning_action">>]

\* agent.py 540-547
initial_session_phase(phase_idx, phase) ==
    [phase_number |-> phase_idx + 1,
     phase_name |-> phase.phase,
     focus |-> phase.focus,
     activities |-> <<>>,
     tools_to_use |-> <<>>,
     duration_estimate |-> "5-10 minutes"]

\* agent.py 540-588 with the phase complete added to the list of 550
session_phase_complete_opening(phase_idx, phase) ==
    IF phase.phase \in opening_phases \cup {"complete"}
        THEN Update(initial_session_phase(phase_idx, phase),
                    opening_phase_update(phase))
    ELSE IF phase.phase \in exploring_phases
        THEN Update(initial_session_phase(phase_idx, phase),
                    exploring_phase_update(phase))
    ELSE IF phase.phase \in practising_phases
        THEN Update(initial_session_phase(phase_idx, phase),
                    practising_phase_update)
    ELSE initial_session_phase(phase_idx, phase)

\* agent.py 540-588: the entry of one phase, phase_idx counted from 0
session_phase(phase_idx, phase) ==
    IF phase.phase \in opening_phases
        THEN Update(initial_session_phase(phase_idx, phase),
                    opening_phase_update(phase))
    ELSE IF phase.phase \in exploring_phases
        THEN Update(initial_session_phase(phase_idx, phase),
                    exploring_phase_update(phase))
    ELSE IF phase.phase \in practising_phases
        THEN Update(initial_session_phase(phase_idx, phase),
                    practising_phase_update)
    ELSE initial_session_phase(phase_idx, phase)

\* agent.py 539-590: for phase_idx, phase in enumerate(teaching_sequence)
session_structure(teaching_sequence) ==
    [i \in 1..Len(teaching_sequence) |->
        session_phase(i - 1, teaching_sequence[i])]

\* agent.py 596-646
tool_coordination(context) ==
    LET current_understanding_ == context.current_understanding
        interests_ == Get(context, "interests", "general")
    IN
    [opening_sequence |-> <<[tool |-> "analyze_learning_style",
                             purpose |-> "Understand student's needs and adapt complexity",
                             timing |-> "Start of session"]>>,
     core_teaching_loop |-> <<[tool |-> "explain_topic",
                               purpose |-> "Provide " \o current_understanding_ \o "-level explanation",
                               timing |-> "Each new concept introduction"],
                              [tool |-> "create_analogies",
                               purpose |-> "Make abstract concepts concrete",
                               timing |-> "When explaining abstract or complex ideas",
                               condition |-> "Especially important for abstract concepts"],
                              [tool |-> "suggest_real_world_applications",
                               purpose |-> "Show relevance and build motivation",
                               timing |-> "After initial explanation",
                               personalization |-> "Connect to student interests: " \o interests_],
                              [tool |-> "generate_quiz_questions",
                               purpose |-> "Check understanding and identify gaps",
                               timing |-> "After each major concept or phase",
                               adaptive |-> "Adjust difficulty based on performance"],
                              [tool |-> "analyze_student_response",
                               purpose |-> "Evaluate understanding depth",
                               timing |-> "After each student answer"]>>,
     adaptation_sequence |-> <<[tool |-> "determine_next_learning_action",
                                purpose |-> "Decide whether to advance, reinforce, or simplify",
                                timing |-> "After assessment or when student shows confusion"],
                               [tool |-> "provide_encouragement",
                                purpose |-> "Maintain motivation and confidence",
                                timing |-> "Throughout session, especially after struggles"]>>]

\* agent.py 652-673
success_criteria ==
    <<[criterion |-> "Accurate explanation",
       indicator |-> "Student can explain concept in their own words",
       assessment |-> "Open-ended question response"],
      [criterion |-> "Application ability",
       indicator |-> "Student can apply concept to new scenarios",
       assessment |-> "Problem-solving or application questions"],
      [criterion |-> "Connection understanding",
       indicator |-> "Student sees relevance and real-world connections",
       assessment |-> "Can describe when/where concept is used"],
      [criterion |-> "Confidence",
       indicator |-> "Student expresses confidence and curiosity",
       assessment |-> "Asks extension questions, shows engagement"]>>

\* agent.py 675-696
adaptation_triggers ==
    <<[trigger |-> "Student answers <50% of questions correctly",
       action |-> "Simplify explanation, use more basic analogies, break concept into smaller pieces",
       tools |-> <<"explain_topic (beginner level)",
                   "create_analogies (simpler)",
                   "provide_encouragement">>],
      [trigger |-> "Student expresses confusion or frustration",
       action |-> "Try completely different analogy, use alternative teaching strategy",
       tools |-> <<"create_analogies (different approach)",
                   "provide_encouragement">>],
      [trigger |-> "Student answers >80% correctly",
       action |-> "Advance to next phase or increase complexity",
       tools |-> <<"determine_next_learning_action",
                   "explain_topic (advanced level)">>],
      [trigger |-> "Student asks extension questions",
       action |-> "Explore deeper applications and related concepts",
       tools |-> <<"suggest_real_world_applications",
                   "explain_topic (advanced)">>]>>

\* agent.py 702-737: the text is kept as the sequence of the values that the
\* template interpolates, in the order in which they occur in it;
\* description.lower() is kept as the pair of the method and its operand
agent_instructions(str, context, classification, strategy, sequence, structure, coordination) ==
    <<str,
      classification.primary_type,
      strategy.description,
      context.current_understanding,
      context.age_group,
      Len(sequence),
      IF is_complex(classification)
          THEN "Progressive building" ELSE "Single focused session",
      Len(structure),
      [i \in 1..Len(structure) |-> <<"Phase", i, structure[i].phase_name>>],
      classification.primary_type,
      strategy.best_for,
      Get(context, "interests", "general"),
      <<"lower", strategy.description>>,
      [i \in 1..Len(coordination.opening_sequence) |->
          coordination.opening_sequence[i].tool],
      [i \in 1..min(3, Len(coordination.core_teaching_loop)) |->
          coordination.core_teaching_loop[i].tool],
      [i \in 1..Len(coordination.adaptation_sequence) |->
          coordination.adaptation_sequence[i].tool]>>

\* agent.py 383-739
teach_concept(str, age, understanding, interest, strategy) ==
    LET context == student_context(age, understanding, interest)
        classification == concept_classification(str)
        decomposed == decomposition(classification)
        chosen == selected_strategy(strategy, classification.primary_type)
        structure == session_structure(decomposed.teaching_sequence)
        coordination == tool_coordination(context)
    IN  Return(
            [concept |-> str,
             student_context |-> context,
             concept_analysis |-> classification,
             decomposition |-> decomposed,
             selected_strategy |-> [name |-> strategy, details |-> chosen],
             session_structure |-> structure,
             tool_coordination |-> coordination,
             success_criteria |-> success_criteria,
             adaptation_triggers |-> adaptation_triggers,
             agent_instructions |->
                 agent_instructions(str, context, classification, chosen,
                                    decomposed.teaching_sequence, structure,
                                    coordination)])

\* the words the concepts of the model are made of
Vocabulary ==
    {<<"H", "o", "w">>,
     <<"t", "o">>,
     <<"p", "r", "o", "c", "e", "s", "s">>,
     <<"T", "h", "e", "o", "r", "y">>,
     <<"w", "h", "y">>,
     <<"s", "y", "s", "t", "e", "m">>,
     <<"a", "n", "d">>,
     <<"q", "u", "a", "n", "t", "u", "m">>,
     <<"p", "l", "a", "n", "t", "s">>}

RECURSIVE join(_)
\* " ".join(words)
join(words) ==
    IF Len(words) = 0 THEN <<>>
    ELSE IF Len(words) = 1 THEN words[1]
    ELSE words[1] \o <<" ">> \o join(Tail(words))

\* the concepts a caller may name: up to MaxWords words, and one concept of
\* more words than the limit of agent.py 423
Concepts ==
    {join(words) : words \in SeqsUpTo(Vocabulary, MaxWords)}
        \cup {join([i \in 1..(WordLimit + 1) |-> <<"p", "l", "a", "n", "t", "s">>])}

\* the five strategies of the docstring (agent.py 376-377) and another name
TeachingStrategies ==
    {"adaptive", "socratic", "worked_examples", "discovery",
     "direct_instruction", "lecture"}

InitTeach ==
    /\ analysis_results = <<>>
    /\ session_context = EmptyDict
    /\ result = Pending
    /\ replay = Pending
    /\ now = 0
    /\ user_answer = <<>>
    /\ correct_answer = <<>>
    /\ question_type = "multiple_choice"
    /\ analysis = Pending
    /\ pc = "teach"
    /\ sessions = <<>>
    /\ NoEncouragement
    /\ concept \in Concepts
    /\ age_group = "general"
    /\ current_understanding \in {"beginner", "advanced"}
    /\ interests = "general"
    /\ teaching_strategy \in TeachingStrategies
    /\ teaching_plan = Pending

Teach ==
    /\ pc = "teach"
    /\ teaching_plan' = teach_concept(concept, age_group, current_understanding,
                                      interests, teaching_strategy)
    /\ now' = now + 1
    /\ pc' = "taught"
    /\ UNCHANGED <<analysis_results, session_context, result, replay,
                   user_answer, correct_answer, question_type, analysis,
                   sessions, encouragement_vars,
                   concept, age_group, current_understanding, interests,
                   teaching_strategy>>

NextTeach == Teach

SpecTeach == InitTeach /\ [][NextTeach]_vars

-----------------------------------------------------------------------------
(* Vocabulary of the properties, stated apart from the code above.         *)

\* the positions of the records of h whose is_correct is set and true
TrueRecords(h) ==
    {i \in 1..Len(h) : "is_correct" \in DOMAIN h[i] /\ h[i].is_correct = TRUE}

\* a record with is_correct or confidence unset occurs in h
HasUnsetField(h) ==
    \E i \in 1..Len(h) : ~({"is_correct", "confidence"} \subseteq DOMAIN h[i])

\* the call of determine_next_learning_action has been made
Decided == pc \in {"decided", "replayed"}

\* the action the thresholds 0.8 and 0.5 give for c correct records out of n
BandAction(c, n) ==
    IF 5 * c >= 4 * n THEN "advance"
    ELSE IF 2 * c >= n THEN "reinforce"
    ELSE "simplify"

\* C1: the call returns action start if and only if the history is empty,
\* whatever the session context holds, and for a nonempty history it returns
\* one of advance, reinforce and simplify.
C1_StartIffEmptyHistory ==
    Decided =>
        /\ result.raised = "none"
        /\ (result.value.action = "start") <=> (analysis_results = <<>>)
        /\ analysis_results # <<>> =>
              result.value.action \in {"advance", "reinforce", "simplify"}

\* an empty history with a session context that is not empty returned start
C1_Witness ==
    /\ pc = "decided"
    /\ analysis_results = <<>>
    /\ session_context = [difficulty |-> "advanced"]
    /\ result.value.action = "start"

\* C2: a nonempty history with a success rate of at least 0.8, exactly 0.8
\* included, returns advance with complexity_adjustment increase.
C2_AdvanceAtLeastEightTenths ==
    (Decided /\ analysis_results # <<>>
             /\ 5 * Cardinality(TrueRecords(analysis_results))
                    >= 4 * Len(analysis_results)) =>
        /\ result.raised = "none"
        /\ result.value.action = "advance"
        /\ result.value.agent_instructions.complexity_adjustment = "increase"

\* four correct records out of five, a rate of exactly 0.8, returned advance
C2_Witness ==
    /\ pc = "decided"
    /\ Len(analysis_results) = 5
    /\ Cardinality(TrueRecords(analysis_results)) = 4
    /\ result.value.action = "advance"

\* C3: a nonempty history with a success rate below 0.5 returns simplify
\* with complexity_adjustment decrease.
C3_SimplifyBelowHalf ==
    (Decided /\ analysis_results # <<>>
             /\ 2 * Cardinality(TrueRecords(analysis_results))
                    < Len(analysis_results)) =>
        /\ result.raised = "none"
        /\ result.value.action = "simplify"
        /\ result.value.agent_instructions.complexity_adjustment = "decrease"

\* two correct records out of five, a rate of 0.4, returned simplify
C3_Witness ==
    /\ pc = "decided"
    /\ Len(analysis_results) = 5
    /\ Cardinality(TrueRecords(analysis_results)) = 2
    /\ result.value.action = "simplify"

\* C4: a nonempty history with a success rate r, 0.5 <= r < 0.8, exactly 0.5
\* and the history true, true, true, false included, returns reinforce with
\* complexity_adjustment maintain.
C4_ReinforceBetween ==
    (Decided /\ analysis_results # <<>>
             /\ 2 * Cardinality(TrueRecords(analysis_results))
                    >= Len(analysis_results)
             /\ 5 * Cardinality(TrueRecords(analysis_results))
                    < 4 * Len(analysis_results)) =>
        /\ result.raised = "none"
        /\ result.value.action = "reinforce"
        /\ result.value.agent_instructions.complexity_adjustment = "maintain"

\* the history true, true, true, false returned reinforce
C4_Witness ==
    /\ pc = "decided"
    /\ analysis_results = <<[is_correct |-> TRUE], [is_correct |-> TRUE],
                            [is_correct |-> TRUE], [is_correct |-> FALSE]>>
    /\ result.value.action = "reinforce"

\* C5 as stated: the call fails with InvalidInput, and returns no action,
\* whenever a record of the history has is_correct or confidence unset.
C5_InvalidInputOnUnsetField ==
    (Decided /\ HasUnsetField(analysis_results)) =>
        result.raised = "InvalidInput"

\* C5 as amended: the call validates nothing and never fails with
\* InvalidInput; a record whose is_correct is unset counts as not correct,
\* confidence is never read, and the action of the resulting success rate is
\* returned.
C5_UnsetCountsAsIncorrect ==
    (Decided /\ HasUnsetField(analysis_results)) =>
        /\ result.raised = "none"
        /\ result.value.action =
              BandAction(Cardinality(TrueRecords(analysis_results)),
                         Len(analysis_results))

\* a correct record followed by a record with neither field set returned
\* reinforce
C5_Witness ==
    /\ pc = "decided"
    /\ analysis_results = <<[is_correct |-> TRUE, confidence |-> "high"], EmptyDict>>
    /\ result.raised = "none"
    /\ result.value.action = "reinforce"

-----------------------------------------------------------------------------
(* Properties of analyze_student_response.                                 *)

Analyzed == pc = "analyzed"

\* str.lower() on one character
lower_char(c) == IF c = "B" THEN "b" ELSE c

\* a and b are the same string up to the case of their letters
SameIgnoringCase(a, b) ==
    /\ Len(a) = Len(b)
    /\ \A i \in 1..Len(a) : lower_char(a[i]) = lower_char(b[i])

\* the positions of str that hold a character other than the blank
Inked(str) == {k \in 1..Len(str) : str[k] # " "}

\* str without its leading and trailing blanks: the part from its first to
\* its last character other than the blank
Trimmed(str) ==
    IF Inked(str) = {} THEN <<>>
    ELSE SubSeq(str,
                CHOOSE i \in Inked(str) : \A k \in Inked(str) : i <= k,
                CHOOSE j \in Inked(str) : \A k \in Inked(str) : j >= k)

\* C6 as stated: for multiple_choice, is_correct is true exactly when the
\* answer equals the key ignoring letter case, and false otherwise.
C6_CorrectIffSameIgnoringCase ==
    (Analyzed /\ question_type = "multiple_choice") =>
        /\ analysis.value.is_correct \in BOOLEAN
        /\ analysis.value.is_correct <=> SameIgnoringCase(user_answer, correct_answer)

\* C6 as amended: for multiple_choice, is_correct is true exactly when the
\* answer and the key, each without its leading and trailing whitespace, are
\* equal ignoring letter case, and false otherwise; there is no third outcome.
C6_CorrectIffSameTrimmedIgnoringCase ==
    (Analyzed /\ question_type = "multiple_choice") =>
        /\ analysis.raised = "none"
        /\ analysis.value.is_correct \in BOOLEAN
        /\ analysis.value.is_correct <=>
              SameIgnoringCase(Trimmed(user_answer), Trimmed(correct_answer))

\* the answer " b" against the key "B" was found correct
C6_Witness ==
    /\ Analyzed
    /\ question_type = "multiple_choice"
    /\ user_answer = <<" ", "b">>
    /\ correct_answer = <<"B">>
    /\ analysis.value.is_correct = TRUE

\* the key terms configured for the open-ended items
KeyTerms == {"b", "c", "d"}

\* the number of key terms that occur in the text
KeyTermsPresent(text) ==
    Cardinality({t \in KeyTerms : \E i \in 1..Len(text) : text[i] = t})

\* the confidence band of an assessment: its confidence, or the
\* understanding_level that stands for it
Band(a) == Get(a, "confidence", a.understanding_level)

\* C7 as stated: for open_ended, three or more key terms in the text give
\* confidence high and correct = true, one or two give confidence partial, and
\* none gives confidence low and correct = false.
C7_KeyTermThresholds ==
    (Analyzed /\ question_type = "open_ended") =>
        /\ KeyTermsPresent(user_answer) >= 3 =>
              (Band(analysis.value) \in {"high", "good"}
                  /\ analysis.value.is_correct = TRUE)
        /\ KeyTermsPresent(user_answer) \in {1, 2} =>
              Band(analysis.value) = "partial"
        /\ KeyTermsPresent(user_answer) = 0 =>
              (Band(analysis.value) \in {"low", "needs_improvement"}
                  /\ analysis.value.is_correct = FALSE)

\* C7 as amended: for open_ended no key term is counted; whatever the text,
\* the result has is_correct = false and understanding_level
\* needs_improvement, asks for the LLM's evaluation, and hands on the answer
\* and the expected answer as they were given.
C7_OpenEndedLeftToLLM ==
    (Analyzed /\ question_type = "open_ended") =>
        /\ analysis.raised = "none"
        /\ analysis.value.is_correct = FALSE
        /\ analysis.value.understanding_level = "needs_improvement"
        /\ "confidence" \notin DOMAIN analysis.value
        /\ analysis.value.requires_llm_evaluation = TRUE
        /\ analysis.value.student_answer = user_answer
        /\ analysis.value.expected_answer = correct_answer

\* an open-ended answer that holds all three key terms, and equals the
\* expected answer up to a blank, was assessed as not correct
C7_Witness ==
    /\ Analyzed
    /\ question_type = "open_ended"
    /\ KeyTermsPresent(user_answer) = 3
    /\ analysis.value.is_correct = FALSE
    /\ analysis.value.understanding_level = "needs_improvement"

\* C8 as stated: a question_type that is neither multiple_choice nor
\* open_ended is reported as an InvalidInput error and no assessment is
\* returned.
C8_InvalidInputOnUnknownType ==
    (Analyzed /\ question_type \notin {"multiple_choice", "open_ended"}) =>
        analysis.raised = "InvalidInput"

\* C8 as amended: a question_type that is neither multiple_choice nor
\* open_ended reports no error; the call returns the initial assessment
\* (is_correct false, understanding_level needs_improvement, no issues, no
\* recommendations, empty encouragement) whatever the answers, and that
\* result, having no action field, differs from the start outcome.
C8_UnknownTypeReturnsInitialAssessment ==
    (Analyzed /\ question_type \notin {"multiple_choice", "open_ended"}) =>
        /\ analysis.raised = "none"
        /\ DOMAIN analysis.value =
              {"is_correct", "understanding_level", "specific_issues",
               "recommendations", "encouragement"}
        /\ analysis.value.is_correct = FALSE
        /\ analysis.value.understanding_level = "needs_improvement"
        /\ analysis.value.specific_issues = <<>>
        /\ analysis.value.recommendations = <<>>
        /\ analysis.value.encouragement = ""
        /\ "action" \notin DOMAIN analysis.value

\* a true_false question whose answer equals its key was assessed
C8_Witness ==
    /\ Analyzed
    /\ question_type = "true_false"
    /\ user_answer = <<"b">>
    /\ correct_answer = <<"b">>
    /\ analysis.raised = "none"
    /\ analysis.value.is_correct = FALSE

-----------------------------------------------------------------------------
(* Further properties of determine_next_learning_action.                   *)

\* the complexity_adjustment a result carries, "unset" if it carries none
Adjustment(a) ==
    Get(Get(a, "agent_instructions", EmptyDict), "complexity_adjustment", "unset")

\* the strategy hint a result carries, "unset" if it carries none
StrategyHint(a) ==
    Get(a, "strategy_hint",
        Get(Get(a, "agent_instructions", EmptyDict), "teaching_approach", "unset"))

\* C11 as stated: the action returned for an empty history carries
\* complexity_adjustment maintain and the strategy hint adaptive.
C11_StartCarriesMaintainAdaptive ==
    (Decided /\ analysis_results = <<>>) =>
        /\ Adjustment(result.value) = "maintain"
        /\ StrategyHint(result.value) = "adaptive"

\* C11 as amended: the action returned for an empty history has the fields
\* action = start, reason and next_steps only; it carries no
\* agent_instructions, so neither a complexity_adjustment nor a strategy
\* hint.  Every other action carries a complexity_adjustment out of
\* increase, maintain, decrease.
C11_StartCarriesNoInstructions ==
    Decided =>
        /\ analysis_results = <<>> =>
              /\ DOMAIN result.value = {"action", "reason", "next_steps"}
              /\ result.value.action = "start"
              /\ Adjustment(result.value) = "unset"
              /\ StrategyHint(result.value) = "unset"
        /\ analysis_results # <<>> =>
              Adjustment(result.value) \in {"increase", "maintain", "decrease"}

\* an empty history was decided and the result has no agent_instructions
C11_Witness ==
    /\ pc = "decided"
    /\ analysis_results = <<>>
    /\ result.raised = "none"
    /\ "agent_instructions" \notin DOMAIN result.value

\* every record of h has a boolean is_correct
WellTyped(h) ==
    \A i \in 1..Len(h) :
        "is_correct" \in DOMAIN h[i] /\ h[i].is_correct \in BOOLEAN

\* C12: for a nonempty history whose records have a boolean is_correct, and
\* any session context, the call raises nothing and returns an action.
C12_NeverRaisesOnTypedHistory ==
    (Decided /\ analysis_results # <<>> /\ WellTyped(analysis_results)) =>
        /\ result.raised = "none"
        /\ result.value.action \in {"advance", "reinforce", "simplify"}

\* a history of five typed records, some without a confidence, returned
C12_Witness ==
    /\ pc = "decided"
    /\ Len(analysis_results) = MaxHistory
    /\ WellTyped(analysis_results)
    /\ \E i \in 1..Len(analysis_results) :
          "confidence" \notin DOMAIN analysis_results[i]
    /\ session_context = EmptyDict
    /\ result.raised = "none"

\* h with the records at positions i and i + 1 exchanged
Exchanged(h, i) == [h EXCEPT ![i] = h[i + 1], ![i + 1] = h[i]]

\* the record r counts as correct
IsCorrectRecord(r) == "is_correct" \in DOMAIN r /\ r.is_correct = TRUE

\* C13: the rate is taken over the whole history without window, decay or
\* regard to order: exchanging two neighbouring records, or replacing a
\* record by another one of the same correctness, leaves the outcome as it
\* is.  Those two moves lead from a history to every history of the same
\* length and number of correct records, every permutation included.
C13_OrderAndShapeIrrelevant ==
    Decided =>
        /\ \A i \in 1..(Len(analysis_results) - 1) :
              determine_next_learning_action(
                  Exchanged(analysis_results, i), session_context) = result
        /\ \A i \in 1..Len(analysis_results) : \A r \in HistoryRecords :
              IsCorrectRecord(r) = IsCorrectRecord(analysis_results[i]) =>
                  determine_next_learning_action(
                      [analysis_results EXCEPT ![i] = r], session_context) = result

\* three correct answers followed by two recent failures returned reinforce
C13_Witness ==
    /\ pc = "decided"
    /\ analysis_results = <<[is_correct |-> TRUE], [is_correct |-> TRUE],
                            [is_correct |-> TRUE], [is_correct |-> FALSE],
                            [is_correct |-> FALSE]>>
    /\ result.value.action = "reinforce"

\* C15: whenever a rate is computed (the history is not empty) its
\* denominator is not zero and the rate lies between 0 and 1.
C15_RateBetweenZeroAndOne ==
    (Decided /\ analysis_results # <<>>) =>
        /\ total_questions(analysis_results) > 0
        /\ success_rate(analysis_results)[2] > 0
        /\ 0 <= success_rate(analysis_results)[1]
        /\ success_rate(analysis_results)[1] <= success_rate(analysis_results)[2]

\* a history without a single incorrect record was rated 1
C15_Witness ==
    /\ pc = "decided"
    /\ Len(analysis_results) = 3
    /\ Cardinality(TrueRecords(analysis_results)) = 3
    /\ success_rate(analysis_results) = <<3, 3>>
    /\ result.value.action = "advance"

\* the order simplify < reinforce < advance
Rank(action) ==
    CASE action = "simplify" -> 1
      [] action = "reinforce" -> 2
      [] action = "advance" -> 3

\* C17: for a nonempty history h, the action for h followed by a correct
\* record is never lower than the action for h, and the action for h
\* followed by a record that is not correct is never higher.
C17_MonotoneInAppendedOutcome ==
    (Decided /\ analysis_results # <<>>) =>
        \A r \in HistoryRecords :
            LET longer == determine_next_learning_action(
                              Append(analysis_results, r), session_context)
            IN  /\ longer.raised = "none"
                /\ IsCorrectRecord(r) =>
                      Rank(longer.value.action) >= Rank(result.value.action)
                /\ ~IsCorrectRecord(r) =>
                      Rank(longer.value.action) <= Rank(result.value.action)

\* a history at rate 0.75, which a correct record lifts from reinforce to
\* advance and two incorrect ones would lower
C17_Witness ==
    /\ pc = "decided"
    /\ Len(analysis_results) = 4
    /\ Cardinality(TrueRecords(analysis_results)) = 3
    /\ result.value.action = "reinforce"
    /\ determine_next_learning_action(
           Append(analysis_results, [is_correct |-> TRUE]),
           session_context).value.action = "advance"

-----------------------------------------------------------------------------
(* Properties of interleaved sessions.                                     *)

\* the assessment of one turn, taken on its own
SoloAssessment(turn) ==
    analyze_student_response(turn.user_answer, turn.correct_answer,
                             turn.question_type).value

\* the history a session has after k turns when it runs alone
SoloHistory(script, k) == [i \in 1..k |-> SoloAssessment(script[i])]

C16_NonChoiceHistoriesSimplify ==
    \A sid \in DOMAIN sessions :
        LET session == sessions[sid]
        IN  /\ \A k \in 1..Len(session.history) :
                  session.script[k].question_type # "multiple_choice" =>
                      session.history[k].is_correct = FALSE
            /\ \A k \in 1..Len(session.actions) :
                  (\A i \in 1..k :
                      session.script[i].question_type # "multiple_choice") =>
                      session.actions[k].value.action = "simplify"

\* a session whose two answers, both equal to the expected answer, were an
\* open-ended one and one of another type was told to simplify twice
C16_Witness ==
    /\ pc = "sessions"
    /\ \E sid \in DOMAIN sessions :
          /\ Len(sessions[sid].actions) = 2
          /\ sessions[sid].script[1].question_type = "open_ended"
          /\ sessions[sid].script[2].question_type = "true_false"
          /\ sessions[sid].actions[1].value.action = "simplify"
          /\ sessions[sid].actions[2].value.action = "simplify"

-----------------------------------------------------------------------------
(* Properties of provide_encouragement.                                    *)

\* the list the message is taken from: the level's own list for the three
\* levels of the table, the list of partial for every other level
MessagesFor(level) ==
    CASE level = "good" -> encouragement_messages.good
      [] level = "needs_improvement" -> encouragement_messages.needs_improvement
      [] OTHER -> encouragement_messages.partial

\* C20: for every level and every attempt_number >= 1 the call returns the
\* message at position min(attempt_number, 3), counted from 1, of the
\* level's list of three messages, or of the list of partial when the level
\* is none of good, partial, needs_improvement; it never indexes outside
\* the list.
C20_MessageByAttempt ==
    (pc = "encouraged" /\ attempt_number >= 1) =>
        /\ encouragement.raised = "none"
        /\ Len(MessagesFor(understanding_level)) = 3
        /\ encouragement.value.encouragement =
              MessagesFor(understanding_level)[
                  IF attempt_number <= 3 THEN attempt_number ELSE 3]

\* the fifth attempt at the level needs_review got the third message of the
\* list of partial
C20_Witness ==
    /\ pc = "encouraged"
    /\ understanding_level = "needs_review"
    /\ attempt_number = 5
    /\ encouragement.raised = "none"
    /\ encouragement.value.encouragement = "Nice work! You're on the right track!"

-----------------------------------------------------------------------------
(* Properties of teach_concept.                                            *)

Taught == pc = "taught"

\* the name of the definition that selected_strategy.details is to hold for
\* a strategy argument and a concept type
DetailsStrategy(strategy, type) ==
    IF strategy = "adaptive" THEN
        CASE type = "procedural" -> "worked_examples"
          [] type = "abstract" -> "discovery"
          [] type = "relational" -> "socratic"
          [] type \in {"system", "factual"} -> "adaptive"
    ELSE IF strategy \in {"socratic", "worked_examples", "discovery",
                          "direct_instruction"} THEN strategy
    ELSE "adaptive"

\* C18: selected_strategy.details is, for the strategy adaptive, the
\* definition of worked_examples, discovery or socratic when the concept is
\* procedural, abstract or relational and of adaptive when it is system or
\* factual; for the four other named strategies their own definition
\* whatever the type; for any other name the definition of adaptive whatever
\* the type.  selected_strategy.name is the argument, unchanged.
C18_StrategyDetails ==
    Taught =>
        /\ teaching_plan.raised = "none"
        /\ teaching_plan.value.selected_strategy.name = teaching_strategy
        /\ teaching_plan.value.selected_strategy.details =
              strategy_definitions[
                  DetailsStrategy(teaching_strategy,
                      teaching_plan.value.concept_analysis.primary_type)]

\* a plan for a procedural concept whose strategy is named adaptive and
\* described by the definition of worked_examples
C18_Witness ==
    /\ Taught
    /\ teaching_strategy = "adaptive"
    /\ teaching_plan.value.concept_analysis.primary_type = "procedural"
    /\ teaching_plan.value.selected_strategy.name = "adaptive"
    /\ teaching_plan.value.selected_strategy.details.description =
          "Demonstrate with examples, then have student practice"

\* the phases that are given activities and tools
PhasesWithActivities ==
    {"foundation", "concrete", "overview", "introduction", "procedure",
     "pattern", "components", "development", "practice", "application",
     "mastery"}

\* C19: session_structure has one entry for each element of
\* decomposition.teaching_sequence, in the same order and numbered from 1;
\* the activities and the tools_to_use of an entry are nonempty exactly when
\* its phase is one of PhasesWithActivities.  So the one phase, complete, of
\* a concept that is not complex, and the phases abstraction, interactions
\* and integration of a complex one, have neither activities nor tools.
C19_SessionStructure ==
    Taught =>
        LET sequence == teaching_plan.value.decomposition.teaching_sequence
            structure == teaching_plan.value.session_structure
        IN  /\ Len(structure) = Len(sequence)
            /\ \A i \in 1..Len(structure) :
                  /\ structure[i].phase_number = i
                  /\ structure[i].phase_name = sequence[i].phase
                  /\ structure[i].focus = sequence[i].focus
                  /\ (structure[i].activities # <<>>)
                        <=> (structure[i].phase_name \in PhasesWithActivities)
                  /\ (structure[i].tools_to_use # <<>>)
                        <=> (structure[i].phase_name \in PhasesWithActivities)
                  /\ structure[i].phase_name \in
                        {"complete", "abstraction", "interactions", "integration"} =>
                        (structure[i].activities = <<>>
                            /\ structure[i].tools_to_use = <<>>)
            /\ teaching_plan.value.concept_analysis.complexity_indicators = <<>> =>
                  (Len(structure) = 1 /\ structure[1].phase_name = "complete")

\* a plan for a concept that is not complex: one phase, complete, with
\* neither activities nor tools
C19_Witness ==
    /\ Taught
    /\ teaching_plan.value.decomposition.is_decomposed = FALSE
    /\ Len(teaching_plan.value.session_structure) = 1
    /\ teaching_plan.value.session_structure[1].phase_name = "complete"
    /\ teaching_plan.value.session_structure[1].activities = <<>>
    /\ teaching_plan.value.session_structure[1].tools_to_use = <<>>

====
